---- MODULE Spec2Model ----
(***************************************************************************)
(* Model of pre_commit_dune_format_dune_file/format.py: main(), real_main() *)
(* and get_dune_file_path().  One run of the hook is a state machine whose  *)
(* positions are the loops of real_main (validate/stage, format, commit),   *)
(* the exit of the SaveableTempDir context manager and main()'s handlers.   *)
(* A path is a pair <<directory, base name>>; a file content and everything *)
(* written to standard output is a sequence of tokens.                      *)
(***************************************************************************)
EXTENDS Integers, Sequences, FiniteSets, TLC

\* ---------------------------------------------------------------- bounds
MaxArgs == 3

\* ------------------------------------------------------------ environment
\* The paths a command line may name, with what the filesystem says of them.
FileTable ==
  [ a |-> [name |-> "dune",           isfile |-> TRUE,  r |-> TRUE,  w |-> TRUE ],
    b |-> [name |-> "dune-project",   isfile |-> TRUE,  r |-> TRUE,  w |-> TRUE ],
    c |-> [name |-> "dune-workspace", isfile |-> TRUE,  r |-> TRUE,  w |-> TRUE ],
    d |-> [name |-> "dune",           isfile |-> TRUE,  r |-> TRUE,  w |-> FALSE],
    e |-> [name |-> "dune-project",   isfile |-> TRUE,  r |-> FALSE, w |-> TRUE ],
    f |-> [name |-> "BUILD.bazel",    isfile |-> TRUE,  r |-> TRUE,  w |-> TRUE ],
    g |-> [name |-> "notes.txt",      isfile |-> TRUE,  r |-> FALSE, w |-> FALSE],
    h |-> [name |-> "dune",           isfile |-> FALSE, r |-> TRUE,  w |-> TRUE ] ]

Dirs == DOMAIN FileTable

\* Path(arg): the path strings of the command line, <<directory, base name>>.
Paths == { <<dir, FileTable[dir].name>> : dir \in Dirs }

PathName(path) == path[2]

PathIsFile(path) == FileTable[path[1]].isfile

R_OK == "r"
W_OK == "w"

PathAccess(path, mode) ==
  IF mode = R_OK THEN FileTable[path[1]].r ELSE FileTable[path[1]].w

\* Content of every file before the run.
PreRun(path) == <<"pre", path[1]>>

\* What one invocation of the formatter can leave on its merged output.
Outputs == { <<>>, <<"x">>, <<"y", "\n">> }

\* Return codes of the formatter process: 0, exit codes 1 and 2, and -9 for
\* a formatter killed by signal 9 (subprocess reports -signum).
RetCodes == { 0, 1, 2, -9 }

VersionBanner == <<"version:", "tool", "\n">>
DuneVersionText == <<"dune-version", "\n">>

\* ------------------------------------------------------------- the program
_dune_file_names == { "dune", "dune-project", "dune-workspace" }

\* The resolver without its test of the base name.
get_dune_file_path_AnyName(arg) ==
  IF PathIsFile(arg)
    THEN IF ~PathAccess(arg, R_OK) THEN [kind |-> "raise", exc |-> "PermissionError"]
         ELSE IF ~PathAccess(arg, W_OK) THEN [kind |-> "raise", exc |-> "PermissionError"]
         ELSE [kind |-> "path", exc |-> "none"]
    ELSE [kind |-> "None", exc |-> "none"]

\* The resolver without its test of write access.
get_dune_file_path_NoWriteCheck(arg) ==
  IF PathIsFile(arg) /\ PathName(arg) \in _dune_file_names
    THEN IF ~PathAccess(arg, R_OK) THEN [kind |-> "raise", exc |-> "PermissionError"]
         ELSE [kind |-> "path", exc |-> "none"]
    ELSE [kind |-> "None", exc |-> "none"]

\* get_dune_file_path: the path, None, or a raised PermissionError.
get_dune_file_path(arg) ==
  IF PathIsFile(arg) /\ PathName(arg) \in _dune_file_names
    THEN IF ~PathAccess(arg, R_OK) THEN [kind |-> "raise", exc |-> "PermissionError"]
         ELSE IF ~PathAccess(arg, W_OK) THEN [kind |-> "raise", exc |-> "PermissionError"]
         ELSE [kind |-> "path", exc |-> "none"]
    ELSE [kind |-> "None", exc |-> "none"]

\* The value None of an Optional[Path] entry; temporary files are numbered from 1.
None == 0

\* A list of pairs in place of the dict: every occurrence is an entry.
DictSet_Append(dict, key, val) == Append(dict, [key |-> key, val |-> val])

\* dict.__setitem__ on an insertion-ordered dict: a key already present keeps
\* its position and takes the new value.
DictSet(dict, key, val) ==
  IF \E n \in 1..Len(dict) : dict[n].key = key
    THEN [n \in 1..Len(dict) |->
            IF dict[n].key = key THEN [key |-> key, val |-> val] ELSE dict[n]]
    ELSE Append(dict, [key |-> key, val |-> val])

\* sys.exit(n): the status the parent process sees.
ExitStatus(n) == n % 256

\* Status of an interpreter that ends on an uncaught KeyboardInterrupt.
UncaughtInterruptStatus == 130

NoPending == [kind |-> "none", val |-> 0, exc |-> "none"]
Return(n) == [kind |-> "return", val |-> n, exc |-> "none"]
Raise(x) == [kind |-> "raise", val |-> 0, exc |-> x]

Unbound == [bound |-> FALSE, stdout |-> <<>>]

VARIABLES
  args,                  \* argparse.Namespace: version, in_place, save_dune_temps, dune_files
  dune_on_path,          \* whether shutil.which("dune") finds the executable
  dune_exe_cached,       \* functools.cache of dune_get_exe holds a result
  pc,                    \* position of the run
  files,                 \* content of every path of the filesystem
  tempdir,               \* "none", "exists" or "removed"
  tmp_files,             \* the temporary files, in creation order
  orig_dune_to_tmp_dune, \* the staging dict, in insertion order
  i,                     \* index of the validation loop in args.dune_files
  j,                     \* index of the format loop in the staging dict
  k,                     \* index of the commit loop in the staging dict
  df_res,                \* the local df_res of real_main
  stdout,                \* what the program printed on standard output
  pending,               \* how real_main is being left: return value or exception
  ret,                   \* what main() returned
  exit_status,           \* status of the process, -1 while it runs
  invoked,               \* history: the formatter invocations, with their outcome
  opened_w,              \* history: originals opened for writing
  interrupted,           \* history: position at which a KeyboardInterrupt arrived
  fs_error               \* history: position at which a filesystem call failed

vars == << args, dune_on_path, dune_exe_cached, pc, files, tempdir, tmp_files,
           orig_dune_to_tmp_dune, i, j, k, df_res, stdout, pending, ret,
           exit_status, invoked, opened_w, interrupted, fs_error >>

RECURSIVE SeqsUpTo(_, _)
SeqsUpTo(S, n) ==
  IF n = 0 THEN { <<>> }
  ELSE LET shorter == SeqsUpTo(S, n - 1)
       IN shorter \cup { Append(s, x) : s \in { t \in shorter : Len(t) = n - 1 }, x \in S }

\* nargs="+": at least one path.
ArgLists == { s \in SeqsUpTo(Paths, MaxArgs) : Len(s) >= 1 }

Init ==
  /\ args \in [ version : BOOLEAN, in_place : BOOLEAN,
                save_dune_temps : BOOLEAN, dune_files : ArgLists ]
  /\ dune_on_path \in BOOLEAN
  /\ dune_exe_cached = FALSE
  /\ pc = "real_main"
  /\ files = [p \in Paths |-> PreRun(p)]
  /\ tempdir = "none"
  /\ tmp_files = <<>>
  /\ orig_dune_to_tmp_dune = <<>>
  /\ i = 1
  /\ j = 1
  /\ k = 1
  /\ df_res = Unbound
  /\ stdout = <<>>
  /\ pending = NoPending
  /\ ret = 0
  /\ exit_status = -1
  /\ invoked = <<>>
  /\ opened_w = {}
  /\ interrupted = "no"
  /\ fs_error = "no"


\* The flag taken with the wrong sense.
InPlace_Always == TRUE

\* line 100
InPlace == args.in_place

OrigOf(n) == orig_dune_to_tmp_dune[n].key
\* The entry read as if line 130 had filled it.
TmpOf_None(n) == None

TmpOf(n) == orig_dune_to_tmp_dune[n].val

\* dune_get_exe without the test of the result of shutil.which.
dune_get_exe_NoCheck == TRUE

\* lines 34-41: True when dune_get_exe() returns, False when it raises.
dune_get_exe == dune_exe_cached \/ dune_on_path

\* ------------------------------------------------------- real_main, 83-94
RealMainVersion ==
  /\ pc = "real_main"
  /\ args.version
  /\ IF dune_get_exe
       THEN /\ stdout' = stdout \o VersionBanner \o DuneVersionText
            /\ dune_exe_cached' = TRUE
            /\ pending' = Return(0)
       ELSE /\ stdout' = stdout \o VersionBanner
            /\ dune_exe_cached' = dune_exe_cached
            /\ pending' = Raise("FileNotFoundError")
  /\ pc' = "main_dispatch"
  /\ UNCHANGED << args, dune_on_path, files, tempdir, tmp_files,
                  orig_dune_to_tmp_dune, i, j, k, df_res, ret, exit_status,
                  invoked, opened_w, interrupted, fs_error >>

\* real_main without the early return of the --version branch.
EnterTempDir_AfterVersion ==
  /\ pc = "real_main"
  /\ \/ /\ tempdir' = "exists"
        /\ pc' = "validate"
        /\ UNCHANGED << pending, fs_error >>
     \/ /\ pending' = Raise("OSError")
        /\ fs_error' = "mkdtemp"
        /\ pc' = "main_dispatch"
        /\ UNCHANGED tempdir
  /\ UNCHANGED << args, dune_on_path, dune_exe_cached, files, tmp_files,
                  orig_dune_to_tmp_dune, i, j, k, df_res, stdout, ret,
                  exit_status, invoked, opened_w, interrupted >>

\* ------------------------------------------------------ real_main, 95-110
EnterTempDir ==
  /\ pc = "real_main"
  /\ ~args.version
  /\ \/ /\ tempdir' = "exists"
        /\ pc' = "validate"
        /\ UNCHANGED << pending, fs_error >>
     \/ /\ pending' = Raise("OSError")          \* mkdtemp fails
        /\ fs_error' = "mkdtemp"
        /\ pc' = "main_dispatch"
        /\ UNCHANGED tempdir
  /\ UNCHANGED << args, dune_on_path, dune_exe_cached, files, tmp_files,
                  orig_dune_to_tmp_dune, i, j, k, df_res, stdout, ret,
                  exit_status, invoked, opened_w, interrupted >>

\* ----------------------------------- real_main, 111-130: one loop iteration
NewTmpFile(orig) == [prefix |-> PathName(orig), content |-> <<>>, writes |-> 0]

ValidateStep ==
  /\ pc = "validate"
  /\ i <= Len(args.dune_files)
  /\ LET should_be_dune_file == args.dune_files[i]
         orig_dune_file == get_dune_file_path(should_be_dune_file)
         next_pc == IF i = Len(args.dune_files) THEN "format" ELSE "validate"
     IN  CASE orig_dune_file.kind = "raise" ->
                /\ pending' = Raise(orig_dune_file.exc)
                /\ pc' = "with_exit"
                /\ UNCHANGED << tmp_files, orig_dune_to_tmp_dune, i, fs_error >>
           [] orig_dune_file.kind = "None" ->
                /\ pending' = Raise("TypeError")
                /\ pc' = "with_exit"
                /\ UNCHANGED << tmp_files, orig_dune_to_tmp_dune, i, fs_error >>
           [] orig_dune_file.kind = "path" /\ InPlace ->
                \/ /\ tmp_files' = Append(tmp_files, NewTmpFile(should_be_dune_file))
                   /\ orig_dune_to_tmp_dune' =
                        DictSet(orig_dune_to_tmp_dune, should_be_dune_file,
                                Len(tmp_files) + 1)
                   /\ i' = i + 1
                   /\ pc' = next_pc
                   /\ UNCHANGED << pending, fs_error >>
                \/ /\ pending' = Raise("OSError")   \* NamedTemporaryFile fails
                   /\ fs_error' = "stage"
                   /\ pc' = "with_exit"
                   /\ UNCHANGED << tmp_files, orig_dune_to_tmp_dune, i >>
           [] orig_dune_file.kind = "path" /\ ~InPlace ->
                /\ orig_dune_to_tmp_dune' =
                     DictSet(orig_dune_to_tmp_dune, should_be_dune_file, None)
                /\ i' = i + 1
                /\ pc' = next_pc
                /\ UNCHANGED << tmp_files, pending, fs_error >>
  /\ UNCHANGED << args, dune_on_path, dune_exe_cached, files, tempdir, j, k,
                  df_res, stdout, ret, exit_status, invoked, opened_w,
                  interrupted >>

\* ----------------------------------- real_main, 132-168: one loop iteration
Invocation(path, outcome, rc, out) ==
  [path |-> path, outcome |-> outcome, rc |-> rc, out |-> out]

\* The commit loop started from inside the format loop.
AfterFormat_CommitEach ==
  IF InPlace
    THEN /\ pc' = "commit"
         /\ pending' = pending
    ELSE IF j < Len(orig_dune_to_tmp_dune)
      THEN /\ pc' = "format"
           /\ pending' = pending
      ELSE /\ pc' = "with_exit"
           /\ pending' = Return(0)

\* Where the format loop goes after an iteration that reached its end.
AfterFormat ==
  IF j < Len(orig_dune_to_tmp_dune)
    THEN /\ pc' = "format"
         /\ pending' = pending
    ELSE IF InPlace
      THEN /\ pc' = "commit"
           /\ pending' = pending
      ELSE /\ pc' = "with_exit"
           /\ pending' = Return(0)

\* line 133: dune_get_exe() raises, outside the try
FormatExeMissing ==
  /\ ~dune_get_exe
  /\ pending' = Raise("FileNotFoundError")
  /\ pc' = "with_exit"
  /\ UNCHANGED << dune_exe_cached, tmp_files, j, df_res, stdout, invoked,
                  fs_error >>

\* line 148
CalledProcessErrorResult_One(rc) == Return(1)

CalledProcessErrorResult(rc) == Return(rc)

\* The handler of CalledProcessError without its return statement: the loop
\* goes on with the next file.
FormatCalledProcessError_NoReturn ==
  /\ dune_get_exe
  /\ \E rc \in RetCodes \ {0} :
       invoked' = Append(invoked, Invocation(OrigOf(j), "nonzero", rc, <<>>))
  /\ dune_exe_cached' = TRUE
  /\ j' = j + 1
  /\ AfterFormat
  /\ UNCHANGED << tmp_files, df_res, stdout, fs_error >>

\* lines 143-148: subprocess.run raises CalledProcessError
FormatCalledProcessError ==
  /\ dune_get_exe
  /\ \E rc \in RetCodes \ {0} :
       /\ invoked' = Append(invoked, Invocation(OrigOf(j), "nonzero", rc, <<>>))
       /\ pending' = CalledProcessErrorResult(rc)
  /\ dune_exe_cached' = TRUE
  /\ pc' = "with_exit"
  /\ UNCHANGED << tmp_files, j, df_res, stdout, fs_error >>

\* The handler taking its code from the result of the previous invocation.
ExceptionResult_Stale ==
  IF df_res.bound THEN Return(0) ELSE Raise("UnboundLocalError")

\* lines 150-154: the handler reads df_res.stdout, then returns 1
ExceptionResult ==
  IF df_res.bound THEN Return(1) ELSE Raise("UnboundLocalError")

\* lines 149-154: subprocess.run raises any other exception
FormatException ==
  /\ dune_get_exe
  /\ invoked' = Append(invoked, Invocation(OrigOf(j), "exception", 0, <<>>))
  /\ pending' = ExceptionResult
  /\ dune_exe_cached' = TRUE
  /\ pc' = "with_exit"
  /\ UNCHANGED << tmp_files, j, df_res, stdout, fs_error >>

\* The output of a file held back instead of printed.
PrintedText_Nothing(text) == <<>>

\* print(text) with the default end.
PrintedText_Newline(text) == text \o <<"\n">>

\* line 168: print(text, end="")
PrintedText(text) == text

\* lines 155-168: the formatter returned 0
FormatSuccess ==
  /\ dune_get_exe
  /\ dune_exe_cached' = TRUE
  /\ \E out \in Outputs :
       /\ invoked' = Append(invoked, Invocation(OrigOf(j), "ok", 0, out))
       /\ df_res' = [bound |-> TRUE, stdout |-> out]
       /\ IF InPlace
            THEN IF TmpOf(j) = None
              THEN /\ pending' = Raise("FileNotFoundError")
                   /\ pc' = "with_exit"
                   /\ UNCHANGED << tmp_files, j, stdout, fs_error >>
              ELSE \/ /\ tmp_files' =
                           [tmp_files EXCEPT ![TmpOf(j)] =
                              [@ EXCEPT !.content = df_res'.stdout,
                                        !.writes = @ + 1]]
                      /\ j' = j + 1
                      /\ AfterFormat
                      /\ UNCHANGED << stdout, fs_error >>
                   \/ /\ tmp_files' =      \* open(tmp, "w") or the write fails
                           [tmp_files EXCEPT ![TmpOf(j)] =
                              [@ EXCEPT !.content = <<>>]]
                      /\ pending' = Raise("OSError")
                      /\ fs_error' = "tmp_write"
                      /\ pc' = "with_exit"
                      /\ UNCHANGED << j, stdout >>
            ELSE /\ stdout' = stdout \o PrintedText(df_res'.stdout)
                 /\ j' = j + 1
                 /\ AfterFormat
                 /\ UNCHANGED << tmp_files, fs_error >>

FormatStep ==
  /\ pc = "format"
  /\ j <= Len(orig_dune_to_tmp_dune)
  /\ \/ FormatExeMissing
     \/ FormatCalledProcessError
     \/ FormatException
     \/ FormatSuccess
  /\ UNCHANGED << args, dune_on_path, files, tempdir, orig_dune_to_tmp_dune,
                  i, k, ret, exit_status, opened_w, interrupted >>

\* ----------------------------------- real_main, 169-184: one loop iteration
AfterCommit ==
  IF k < Len(orig_dune_to_tmp_dune)
    THEN /\ pc' = "commit"
         /\ pending' = pending
    ELSE /\ pc' = "with_exit"
         /\ pending' = Return(0)

\* open(orig, "a"): the copy is appended.
CommitContent_Append(old, new) == old \o new

\* lines 182-183: open(orig, "w") truncates, then the temp's text is written
CommitContent(old, new) == new

CommitStep ==
  /\ pc = "commit"
  /\ k <= Len(orig_dune_to_tmp_dune)
  /\ LET orig_dune_file == OrigOf(k)
         tmp_dune_file == TmpOf(k)
     IN
     IF tmp_dune_file = None
       THEN /\ pending' = Raise("FileNotFoundError")
            /\ pc' = "with_exit"
            /\ UNCHANGED << files, k, opened_w, fs_error >>
       ELSE \/ \* line 182-183 complete
               /\ files' = [files EXCEPT ![orig_dune_file] =
                              CommitContent(@, tmp_files[tmp_dune_file].content)]
               /\ opened_w' = opened_w \cup {orig_dune_file}
               /\ k' = k + 1
               /\ AfterCommit
               /\ UNCHANGED fs_error
            \/ \* open(tmp_dune_file) or open(orig_dune_file, "w") fails
               /\ pending' = Raise("OSError")
               /\ fs_error' = "commit_open"
               /\ pc' = "with_exit"
               /\ UNCHANGED << files, k, opened_w >>
            \/ \* the original is truncated by open(.., "w"), then the write fails
               /\ files' = [files EXCEPT ![orig_dune_file] = <<>>]
               /\ opened_w' = opened_w \cup {orig_dune_file}
               /\ pending' = Raise("OSError")
               /\ fs_error' = "commit_write"
               /\ pc' = "with_exit"
               /\ UNCHANGED k
  /\ UNCHANGED << args, dune_on_path, dune_exe_cached, tempdir, tmp_files,
                  orig_dune_to_tmp_dune, i, j, df_res, stdout, ret,
                  exit_status, invoked, interrupted >>

\* __exit__ without the test of the save flag.
WithExit_AlwaysRemoves ==
  /\ pc = "with_exit"
  /\ tempdir' = "removed"
  /\ pc' = "main_dispatch"
  /\ UNCHANGED << args, dune_on_path, dune_exe_cached, files, tmp_files,
                  orig_dune_to_tmp_dune, i, j, k, df_res, stdout, pending, ret,
                  exit_status, invoked, opened_w, interrupted, fs_error >>

\* ------------------------------------ SaveableTempDir.__exit__, lines 77-79
WithExit ==
  /\ pc = "with_exit"
  /\ tempdir' = IF args.save_dune_temps THEN tempdir ELSE "removed"
  /\ pc' = "main_dispatch"
  /\ UNCHANGED << args, dune_on_path, dune_exe_cached, files, tmp_files,
                  orig_dune_to_tmp_dune, i, j, k, df_res, stdout, pending, ret,
                  exit_status, invoked, opened_w, interrupted, fs_error >>

\* ------------------------------------------------------- main, lines 213-222
MainReturn ==
  /\ pc = "main_dispatch"
  /\ pending.kind = "return"
  /\ ret' = pending.val
  /\ pc' = "sys_exit"
  /\ UNCHANGED << args, dune_on_path, dune_exe_cached, files, tempdir,
                  tmp_files, orig_dune_to_tmp_dune, i, j, k, df_res, stdout,
                  pending, exit_status, invoked, opened_w, interrupted,
                  fs_error >>

\* except Exception: entered; log.exception is running
MainCatchException ==
  /\ pc = "main_dispatch"
  /\ pending.kind = "raise"
  /\ pending.exc # "KeyboardInterrupt"
  /\ pc' = "main_except"
  /\ UNCHANGED << args, dune_on_path, dune_exe_cached, files, tempdir,
                  tmp_files, orig_dune_to_tmp_dune, i, j, k, df_res, stdout,
                  pending, ret, exit_status, invoked, opened_w, interrupted,
                  fs_error >>

\* The handler of main returning success.
MainExceptReturn_Zero ==
  /\ pc = "main_except"
  /\ ret' = 0
  /\ pc' = "sys_exit"
  /\ UNCHANGED << args, dune_on_path, dune_exe_cached, files, tempdir,
                  tmp_files, orig_dune_to_tmp_dune, i, j, k, df_res, stdout,
                  pending, exit_status, invoked, opened_w, interrupted,
                  fs_error >>

\* line 220
MainExceptReturn ==
  /\ pc = "main_except"
  /\ ret' = 1
  /\ pc' = "sys_exit"
  /\ UNCHANGED << args, dune_on_path, dune_exe_cached, files, tempdir,
                  tmp_files, orig_dune_to_tmp_dune, i, j, k, df_res, stdout,
                  pending, exit_status, invoked, opened_w, interrupted,
                  fs_error >>

\* lines 221-222
MainCatchKeyboardInterrupt ==
  /\ pc = "main_dispatch"
  /\ pending.kind = "raise"
  /\ pending.exc = "KeyboardInterrupt"
  /\ ret' = 0
  /\ pc' = "sys_exit"
  /\ UNCHANGED << args, dune_on_path, dune_exe_cached, files, tempdir,
                  tmp_files, orig_dune_to_tmp_dune, i, j, k, df_res, stdout,
                  pending, exit_status, invoked, opened_w, interrupted,
                  fs_error >>

\* line 226
SysExit ==
  /\ pc = "sys_exit"
  /\ exit_status' = ExitStatus(ret)
  /\ pc' = "done"
  /\ UNCHANGED << args, dune_on_path, dune_exe_cached, files, tempdir,
                  tmp_files, orig_dune_to_tmp_dune, i, j, k, df_res, stdout,
                  pending, ret, invoked, opened_w, interrupted, fs_error >>

\* ------------------------------------------- the user's interrupt (SIGINT)
\* Raised in real_main before the with block is entered.
InterruptBeforeTempDir ==
  /\ pc = "real_main"
  /\ pending' = Raise("KeyboardInterrupt")
  /\ interrupted' = pc
  /\ pc' = "main_dispatch"
  /\ UNCHANGED << args, dune_on_path, dune_exe_cached, files, tempdir,
                  tmp_files, orig_dune_to_tmp_dune, i, j, k, df_res, stdout,
                  ret, exit_status, invoked, opened_w, fs_error >>

\* Raised inside the with block, in the validation or the format loop.
InterruptBeforeCommit ==
  /\ pc \in {"validate", "format"}
  /\ pending' = Raise("KeyboardInterrupt")
  /\ interrupted' = pc
  /\ pc' = "with_exit"
  /\ UNCHANGED << args, dune_on_path, dune_exe_cached, files, tempdir,
                  tmp_files, orig_dune_to_tmp_dune, i, j, k, df_res, stdout,
                  ret, exit_status, invoked, opened_w, fs_error >>

\* Raised in the commit loop: between two iterations, or inside line 182-183
\* once the original has been truncated.
InterruptInCommit ==
  /\ pc = "commit"
  /\ k <= Len(orig_dune_to_tmp_dune)
  /\ \/ UNCHANGED << files, opened_w >>
     \/ /\ TmpOf(k) # None
        /\ files' = [files EXCEPT ![OrigOf(k)] = <<>>]
        /\ opened_w' = opened_w \cup {OrigOf(k)}
  /\ pending' = Raise("KeyboardInterrupt")
  /\ interrupted' = pc
  /\ pc' = "with_exit"
  /\ UNCHANGED << args, dune_on_path, dune_exe_cached, tempdir, tmp_files,
                  orig_dune_to_tmp_dune, i, j, k, df_res, stdout, ret,
                  exit_status, invoked, fs_error >>

\* Raised while __exit__ runs: the exception replaces what was pending and
\* the directory is not (wholly) removed.
InterruptInWithExit ==
  /\ pc = "with_exit"
  /\ pending' = Raise("KeyboardInterrupt")
  /\ interrupted' = pc
  /\ pc' = "main_dispatch"
  /\ UNCHANGED << args, dune_on_path, dune_exe_cached, files, tempdir,
                  tmp_files, orig_dune_to_tmp_dune, i, j, k, df_res, stdout,
                  ret, exit_status, invoked, opened_w, fs_error >>

\* Raised inside main's "except Exception" handler: the sibling clause
\* "except KeyboardInterrupt" does not apply, the interpreter ends on it.
InterruptInMainExcept ==
  /\ pc = "main_except"
  /\ pending' = Raise("KeyboardInterrupt")
  /\ interrupted' = pc
  /\ exit_status' = UncaughtInterruptStatus
  /\ pc' = "done"
  /\ UNCHANGED << args, dune_on_path, dune_exe_cached, files, tempdir,
                  tmp_files, orig_dune_to_tmp_dune, i, j, k, df_res, stdout,
                  ret, invoked, opened_w, fs_error >>

Next ==
  \/ RealMainVersion
  \/ EnterTempDir
  \/ ValidateStep
  \/ FormatStep
  \/ CommitStep
  \/ WithExit
  \/ MainReturn
  \/ MainCatchException
  \/ MainExceptReturn
  \/ MainCatchKeyboardInterrupt
  \/ SysExit
  \/ InterruptBeforeTempDir
  \/ InterruptBeforeCommit
  \/ InterruptInCommit
  \/ InterruptInWithExit
  \/ InterruptInMainExcept

Spec == Init /\ [][Next]_vars

TypeOK ==
  /\ pc \in {"real_main", "validate", "format", "commit", "with_exit",
             "main_dispatch", "main_except", "sys_exit", "done"}
  /\ tempdir \in {"none", "exists", "removed"}
  /\ i \in 1..(MaxArgs + 2) /\ j \in 1..(MaxArgs + 2) /\ k \in 1..(MaxArgs + 2)
  /\ exit_status \in -1..255


\* ===================================================================== claims
\* Vocabulary of the claims, written from the command line, the file table
\* and the history variables, not from the operators of the program.
Done == pc = "done"

Batch == args.dune_files

BatchSet == { Batch[n] : n \in 1..Len(Batch) }

RecognisedName(path) ==
  FileTable[path[1]].name \in { "dune", "dune-project", "dune-workspace" }

LacksPermission(path) == ~FileTable[path[1]].r \/ ~FileTable[path[1]].w

ValidFile(path) ==
  FileTable[path[1]].isfile /\ RecognisedName(path) /\ ~LacksPermission(path)

AllPreRun == \A p \in Paths : files[p] = <<"pre", p[1]>>

\* Every file of the batch holds the output of a successful invocation for it.
AllFormatted ==
  \A p \in BatchSet :
    \E n \in 1..Len(invoked) :
      invoked[n].path = p /\ invoked[n].outcome = "ok" /\ files[p] = invoked[n].out

NoInterrupt == interrupted = "no"

NoFsError == fs_error = "no"

SomeNonZero == \E n \in 1..Len(invoked) : invoked[n].outcome = "nonzero"

AllInvocationsOk == \A n \in 1..Len(invoked) : invoked[n].outcome = "ok"

\* The distinct paths of a list, in the order of their first occurrence.
RECURSIVE Dedup(_)
Dedup(s) ==
  IF s = <<>> THEN <<>>
  ELSE LET front == Dedup(SubSeq(s, 1, Len(s) - 1))
           last == s[Len(s)]
       IN IF \E n \in 1..Len(front) : front[n] = last THEN front
          ELSE Append(front, last)

RECURSIVE ConcatOuts(_)
ConcatOuts(invs) ==
  IF invs = <<>> THEN <<>>
  ELSE ConcatOuts(SubSeq(invs, 1, Len(invs) - 1)) \o invs[Len(invs)].out

\* C1: in in-place mode, once a formatter invocation has exited non-zero every
\* original file keeps its pre-run content, and no original is opened for
\* writing unless every file of the batch has had an invocation that exited 0
\* and no invocation has failed.
C1_FailureLeavesOriginals ==
  (args.in_place /\ ~args.version) =>
     /\ SomeNonZero => (AllPreRun /\ opened_w = {})
     /\ opened_w # {} =>
          /\ AllInvocationsOk
          /\ \A p \in BatchSet :
               \E n \in 1..Len(invoked) : invoked[n].path = p

C1_Witness ==
  /\ Done /\ args.in_place /\ NoInterrupt
  /\ Len(invoked) = 2
  /\ invoked[1].outcome = "ok"
  /\ invoked[2].outcome = "nonzero"
  /\ AllPreRun
  /\ exit_status = 1

\* C2: in in-place mode, when every invocation exited 0, no filesystem call
\* failed, no interrupt arrived and the run ended with status 0, every file
\* of the batch holds exactly the output captured by the one invocation made
\* for it.
C2_InPlaceResult ==
  (/\ Done /\ args.in_place /\ ~args.version
   /\ NoInterrupt /\ NoFsError
   /\ AllInvocationsOk /\ exit_status = 0) =>
     \A p \in BatchSet :
       \E n \in 1..Len(invoked) :
         /\ invoked[n].path = p
         /\ files[p] = invoked[n].out
         /\ \A m \in 1..Len(invoked) : invoked[m].path = p => m = n

C2_Witness ==
  /\ Done /\ args.in_place /\ NoInterrupt /\ NoFsError /\ exit_status = 0
  /\ Len(invoked) = 2
  /\ invoked[1].out = <<"x">>
  /\ invoked[2].out = <<"y", "\n">>
  /\ files[invoked[1].path] = <<"x">>
  /\ files[invoked[2].path] = <<"y", "\n">>

\* C3 (as claimed): in in-place mode every fatal condition (an exception
\* leaving real_main, a formatter invocation that failed) ends the run with
\* a non-zero status and with either all originals formatted or all originals
\* at their pre-run content.
C3_AllOrNothingOnFatal ==
  (/\ Done /\ args.in_place /\ ~args.version /\ NoInterrupt
   /\ (pending.kind = "raise" \/ ~AllInvocationsOk)) =>
     /\ AllPreRun \/ AllFormatted
     /\ exit_status # 0

\* C4: a formatter invocation that exits non-zero is the last invocation of
\* the run, the commit loop is never entered, no original is touched, and
\* (absent an interrupt) main returns that code: the process status is the
\* code itself for exit codes 1..255, and 256 - signum for a formatter
\* killed by a signal.
C4_ReturnCodePropagated ==
  ~args.version =>
    \A n \in 1..Len(invoked) :
      invoked[n].outcome = "nonzero" =>
        /\ n = Len(invoked)
        /\ pc \notin {"format", "commit"}
        /\ opened_w = {}
        /\ AllPreRun
        /\ (Done /\ NoInterrupt) =>
             /\ ret = invoked[n].rc
             /\ invoked[n].rc \in 1..255 => exit_status = invoked[n].rc
             /\ invoked[n].rc < 0 => exit_status = 256 + invoked[n].rc

C4_Witness ==
  /\ Done /\ NoInterrupt
  /\ Len(Batch) = 2
  /\ Len(invoked) = 2
  /\ invoked[1].outcome = "ok"
  /\ invoked[2].outcome = "nonzero" /\ invoked[2].rc = 2
  /\ exit_status = 2
  /\ files[Batch[1]] = <<"pre", Batch[1][1]>>


\* Index in the batch of the first path that is not a valid file, 0 if none.
FirstInvalid ==
  IF \A n \in 1..Len(Batch) : ValidFile(Batch[n]) THEN 0
  ELSE CHOOSE n \in 1..Len(Batch) :
         /\ ~ValidFile(Batch[n])
         /\ \A m \in 1..(n - 1) : ValidFile(Batch[m])

\* The resolver has been applied to the n-th path of the batch.
Resolved(n) == n < i \/ (n = i /\ pc \notin {"real_main", "validate"})

\* C5 (as claimed): a run (without --version, interrupt or failure to create
\* a temporary file) whose batch holds a path with an unrecognised base name
\* fails with TypeError and a non-zero status, and invokes no formatter.
C5_BadNameFailsWithTypeError ==
  (/\ Done /\ ~args.version /\ NoInterrupt /\ NoFsError
   /\ \E n \in 1..Len(Batch) : ~RecognisedName(Batch[n])) =>
     /\ pending.kind = "raise" /\ pending.exc = "TypeError"
     /\ exit_status # 0
     /\ invoked = <<>>

\* C5 (amended): a run without --version whose batch holds a path with an
\* unrecognised base name never invokes the formatter; absent an interrupt
\* and a failure to create a temporary file it ends with status 1, on the
\* error of the first path of the list that is not a valid file: TypeError,
\* or PermissionError when that path is a correctly named regular file
\* lacking read or write access.
C5_BadNameAbortsBatch ==
  (/\ ~args.version
   /\ \E n \in 1..Len(Batch) : ~RecognisedName(Batch[n])) =>
     /\ invoked = <<>>
     /\ pc \notin {"format", "commit"}
     /\ (Done /\ NoInterrupt /\ NoFsError) =>
          /\ exit_status = 1
          /\ pending.kind = "raise"
          /\ pending.exc =
               IF /\ FileTable[Batch[FirstInvalid][1]].isfile
                  /\ RecognisedName(Batch[FirstInvalid])
                 THEN "PermissionError" ELSE "TypeError"

C5_Witness ==
  /\ Done /\ NoInterrupt /\ NoFsError /\ ~args.version
  /\ Len(Batch) = 2
  /\ ValidFile(Batch[1])
  /\ FileTable[Batch[2][1]].name = "BUILD.bazel"
  /\ pending.exc = "TypeError"
  /\ exit_status = 1
  /\ invoked = <<>>

\* C6 (as claimed): whenever the resolver has been applied to an input file
\* lacking read or write permission the run is failing with PermissionError,
\* and a batch holding such a file never invokes the formatter.
C6_NoPermissionRaisesPermissionError ==
  ~args.version =>
    \A n \in 1..Len(Batch) :
      (FileTable[Batch[n][1]].isfile /\ LacksPermission(Batch[n])) =>
         /\ invoked = <<>>
         /\ (Resolved(n) /\ NoInterrupt /\ NoFsError) =>
              (pending.kind = "raise" /\ pending.exc = "PermissionError")

\* C6 (amended): whenever the resolver has been applied to an input file that
\* is a regular file with a recognised base name and lacks read or write
\* permission the run is failing with PermissionError (status 1 at exit); a
\* batch holding any file lacking a permission never invokes the formatter.
C6_NamedFileNoPermission ==
  ~args.version =>
    \A n \in 1..Len(Batch) :
      (FileTable[Batch[n][1]].isfile /\ LacksPermission(Batch[n])) =>
         /\ invoked = <<>>
         /\ pc \notin {"format", "commit"}
         /\ (RecognisedName(Batch[n]) /\ Resolved(n) /\ NoInterrupt /\ NoFsError) =>
              /\ pending.kind = "raise" /\ pending.exc = "PermissionError"
              /\ Done => exit_status = 1

C6_Witness ==
  /\ Done /\ NoInterrupt /\ NoFsError /\ ~args.version
  /\ Len(Batch) = 2
  /\ ValidFile(Batch[1])
  /\ FileTable[Batch[2][1]] =
       [name |-> "dune", isfile |-> TRUE, r |-> TRUE, w |-> FALSE]
  /\ i = 2
  /\ pending.exc = "PermissionError"
  /\ exit_status = 1
  /\ invoked = <<>>

\* C7: in stream mode no path of the filesystem ever changes content, no
\* original is opened for writing and no temporary file is created or
\* written, in every state of every run.
C7_StreamModeWritesNothing ==
  ~args.in_place => (AllPreRun /\ opened_w = {} /\ tmp_files = <<>>)

C7_Witness ==
  /\ Done /\ ~args.in_place /\ ~args.version
  /\ Len(invoked) = 3
  /\ invoked[1].outcome = "ok" /\ invoked[2].outcome = "ok"
  /\ invoked[3].outcome = "nonzero"
  /\ stdout # <<>>
  /\ AllPreRun

\* C8: in stream mode, a run that ends with status 0 without interrupt has
\* made exactly one successful invocation per distinct path of the batch, in
\* the order of first occurrence, and standard output is the concatenation
\* of their outputs in that order and nothing else.
C8_StreamOutput ==
  (/\ Done /\ ~args.in_place /\ ~args.version
   /\ NoInterrupt /\ exit_status = 0) =>
     LET order == Dedup(Batch)
     IN  /\ Len(invoked) = Len(order)
         /\ \A n \in 1..Len(order) :
              invoked[n].path = order[n] /\ invoked[n].outcome = "ok"
         /\ stdout = ConcatOuts(invoked)

C8_Witness ==
  /\ Done /\ ~args.in_place /\ ~args.version /\ NoInterrupt /\ exit_status = 0
  /\ Len(Batch) = 3
  /\ Len(invoked) = 2
  /\ invoked[1].out = <<"y", "\n">>
  /\ invoked[2].out = <<"x">>
  /\ stdout = <<"y", "\n", "x">>

\* C9: when the last formatter invocation raised something other than
\* CalledProcessError (and no interrupt arrived), the process status is 1 and
\* no original was opened for writing or changed, on the first file of the
\* batch as on a later one.
C9_UnexpectedInvocationFailure ==
  (/\ Done /\ ~args.version /\ NoInterrupt
   /\ Len(invoked) >= 1
   /\ invoked[Len(invoked)].outcome = "exception") =>
     /\ exit_status = 1
     /\ opened_w = {}
     /\ AllPreRun

C9_Witness ==
  /\ Done /\ NoInterrupt /\ args.in_place
  /\ Len(invoked) = 2
  /\ invoked[1].outcome = "ok"
  /\ invoked[2].outcome = "exception"
  /\ pending = [kind |-> "return", val |-> 1, exc |-> "none"]
  /\ exit_status = 1
  /\ AllPreRun

\* The same on the first file, where df_res is unbound in the handler.
C9_WitnessFirstFile ==
  /\ Done /\ NoInterrupt /\ args.in_place
  /\ Len(invoked) = 1
  /\ invoked[1].outcome = "exception"
  /\ pending.exc = "UnboundLocalError"
  /\ exit_status = 1
  /\ AllPreRun

\* C10 (as claimed): a run in which a KeyboardInterrupt arrived ends with
\* status 0, and when it arrived before the commit loop every original file
\* has its pre-run content.
C10_InterruptExitsZero ==
  (Done /\ ~NoInterrupt) =>
     /\ exit_status = 0
     /\ interrupted \in {"real_main", "validate", "format"} => AllPreRun

\* The part of C10 the program keeps: an interrupt that arrives while
\* real_main runs gives status 0, with the originals untouched when it
\* arrived before the commit loop.
C10_InterruptInRealMain ==
  (Done /\ interrupted \in {"real_main", "validate", "format", "commit", "with_exit"}) =>
     /\ exit_status = 0
     /\ interrupted \in {"real_main", "validate", "format"} => AllPreRun


\* real_main has been left: the with block, if entered, is over.
LeftRealMain == pc \in {"main_dispatch", "main_except", "sys_exit", "done"}

\* C11 (as claimed): once real_main has been left, the temporary directory
\* created for the run is removed when --save-dune-temps is not given and
\* exists when it is given, whatever the way the with block was left.
C11_TempDirRemovedOnEveryExit ==
  (LeftRealMain /\ tempdir # "none") =>
     tempdir = IF args.save_dune_temps THEN "exists" ELSE "removed"

\* C11 (amended): once real_main has been left, the temporary directory
\* created for the run exists, with every temporary file staged in it, when
\* --save-dune-temps is given; when it is not given the directory is removed
\* on every way of leaving the with block (return, early return, exception,
\* interrupt raised inside the block), unless an interrupt arrived while
\* __exit__ itself was removing the directory.  Inside the block it exists.
C11_TempDirLifetime ==
  /\ pc \in {"validate", "format", "commit", "with_exit"} => tempdir = "exists"
  /\ (LeftRealMain /\ tempdir # "none") =>
       /\ args.save_dune_temps => tempdir = "exists"
       /\ (~args.save_dune_temps /\ interrupted # "with_exit") => tempdir = "removed"

C11_Witness ==
  /\ Done /\ args.save_dune_temps /\ args.in_place
  /\ tempdir = "exists"
  /\ Len(tmp_files) = 2
  /\ invoked # <<>>
  /\ invoked[Len(invoked)].outcome = "nonzero"

\* The other half: without the flag the directory is gone after an
\* interrupt raised inside the block.
C11_WitnessRemoved ==
  /\ Done /\ ~args.save_dune_temps /\ interrupted = "format"
  /\ tempdir = "removed"

\* What --version leaves alone: no path resolved, no temporary directory or
\* file, no formatting invocation, no file content changed.
VersionTouchesNothing ==
  /\ i = 1 /\ j = 1 /\ k = 1
  /\ orig_dune_to_tmp_dune = <<>>
  /\ tempdir = "none" /\ tmp_files = <<>>
  /\ invoked = <<>> /\ opened_w = {}
  /\ AllPreRun
  /\ pc \notin {"validate", "format", "commit", "with_exit"}

\* C12 (as claimed): with --version (and no interrupt) the run validates,
\* stages, formats and writes nothing, and ends with status 0.
C12_VersionExitsZero ==
  args.version =>
    /\ VersionTouchesNothing
    /\ (Done /\ NoInterrupt) => exit_status = 0

\* C12 (amended): with --version the run validates, stages, formats and
\* writes nothing; it ends with status 0 when the formatter executable is on
\* the search path, and with FileNotFoundError and status 1 when it is not
\* (absent an interrupt).
C12_VersionTouchesNothing ==
  args.version =>
    /\ VersionTouchesNothing
    /\ (Done /\ dune_on_path) =>
         (exit_status = 0 /\ (NoInterrupt => stdout = VersionBanner \o DuneVersionText))
    /\ (Done /\ ~dune_on_path /\ NoInterrupt) =>
         (exit_status = 1 /\ pending.exc = "FileNotFoundError")

C12_Witness ==
  /\ Done /\ args.version /\ NoInterrupt /\ dune_on_path
  /\ ~ValidFile(Batch[1])
  /\ exit_status = 0
  /\ stdout # <<>>
  /\ AllPreRun


AllBatchValid == \A n \in 1..Len(Batch) : ValidFile(Batch[n])

\* Every path of the batch has been resolved and, in in-place mode, staged.
ValidationComplete ==
  /\ i = Len(Batch) + 1
  /\ args.in_place => Len(tmp_files) = Len(Batch)

\* C13 (as claimed): with the formatter executable absent from the search
\* path a run (without interrupt or filesystem error) fails with
\* FileNotFoundError and a non-zero status, changes no original, and makes
\* the lookup before any path is validated or any temporary file staged.
C13_ExeLookupAtStartup ==
  (~dune_on_path /\ Done /\ NoInterrupt /\ NoFsError) =>
     /\ pending.kind = "raise" /\ pending.exc = "FileNotFoundError"
     /\ exit_status # 0
     /\ AllPreRun
     /\ i = 1 /\ tmp_files = <<>>

\* C13 (amended): with the formatter executable absent from the search path
\* no formatter is invoked, no original is opened for writing or changed and
\* (absent an interrupt) the status is 1.  FileNotFoundError is raised at
\* the first use of the executable: in the --version branch, or else at the
\* first iteration of the format loop, after every path of the batch has
\* been validated and, in in-place mode, staged; it is the error of the run
\* with --version or when every path of the batch is valid.
C13_ExeMissingIsFatal ==
  ~dune_on_path =>
     /\ invoked = <<>> /\ opened_w = {} /\ AllPreRun
     /\ pc # "commit"
     /\ (Done /\ NoInterrupt) => exit_status = 1
     /\ (pending.exc = "FileNotFoundError") =>
          (args.version \/ (ValidationComplete /\ AllBatchValid /\ j = 1))
     /\ (Done /\ NoInterrupt /\ NoFsError /\ (args.version \/ AllBatchValid)) =>
          (pending.kind = "raise" /\ pending.exc = "FileNotFoundError")

C13_Witness ==
  /\ Done /\ ~dune_on_path /\ ~args.version /\ args.in_place /\ NoInterrupt
  /\ pending.exc = "FileNotFoundError"
  /\ Len(tmp_files) = 2
  /\ i = 3
  /\ exit_status = 1
  /\ AllPreRun

\* The first n distinct paths of the batch, as a set.
FirstDistinct(n) == { Dedup(Batch)[m] : m \in 1..n }

\* C14: the phases of a run are ordered.  The format and the commit loop run
\* only after every path has been validated (and staged in in-place mode);
\* the formatter invocations follow the input order, one per iteration of
\* the format loop; an original is opened for writing only after the last
\* invocation has returned 0, and the originals are written in input order,
\* one per iteration of the commit loop.
C14_PhasesInOrder ==
  ~args.version =>
    LET order == Dedup(Batch)
    IN  /\ (pc \in {"format", "commit"} \/ invoked # <<>> \/ opened_w # {}) =>
             /\ ValidationComplete
             /\ Len(orig_dune_to_tmp_dune) = Len(order)
             /\ \A n \in 1..Len(order) : OrigOf(n) = order[n]
        /\ Len(invoked) <= Len(order)
        /\ \A n \in 1..Len(invoked) : invoked[n].path = order[n]
        /\ Len(invoked) \in {j - 1, j}
        /\ pc = "format" => Len(invoked) = j - 1
        /\ (pc = "commit" \/ opened_w # {}) =>
             (Len(invoked) = Len(order) /\ AllInvocationsOk)
        /\ \E n \in {k - 1, k} : n <= Len(order) /\ opened_w = FirstDistinct(n)

C14_Witness ==
  /\ Done /\ args.in_place /\ ~args.version /\ NoInterrupt /\ NoFsError
  /\ Len(Dedup(Batch)) = 3
  /\ Len(invoked) = 3
  /\ opened_w = BatchSet
  /\ k = 4
  /\ exit_status = 0


StagedTmp(n) == orig_dune_to_tmp_dune[n].val

StagedOrig(n) == orig_dune_to_tmp_dune[n].key

\* C15: in in-place mode every entry of the staging dict holds a temporary
\* file, no temporary file is ever written twice, and when the commit loop
\* runs every entry's temporary file has been written exactly once, with the
\* output of the invocation made for its original; in stream mode every
\* entry holds None; the branch raising FileNotFoundError for a missing
\* temporary file is never taken (FileNotFoundError only comes from
\* dune_get_exe, before any invocation).
C15_StagingEntries ==
  ~args.version =>
    /\ \A n \in 1..Len(orig_dune_to_tmp_dune) :
         IF args.in_place
           THEN StagedTmp(n) \in 1..Len(tmp_files)
           ELSE StagedTmp(n) = 0
    /\ \A t \in 1..Len(tmp_files) : tmp_files[t].writes <= 1
    /\ (pc = "commit" \/ opened_w # {}) =>
         \A n \in 1..Len(orig_dune_to_tmp_dune) :
           /\ tmp_files[StagedTmp(n)].writes = 1
           /\ invoked[n].path = StagedOrig(n)
           /\ tmp_files[StagedTmp(n)].content = invoked[n].out
    /\ (pending.exc = "FileNotFoundError") => (~dune_on_path /\ invoked = <<>>)

C15_Witness ==
  /\ pc = "commit" /\ k = 1 /\ args.in_place
  /\ Len(orig_dune_to_tmp_dune) = 2
  /\ tmp_files[StagedTmp(1)] = [prefix |-> "dune", content |-> <<"x">>, writes |-> 1]
  /\ tmp_files[StagedTmp(2)].content = <<"y", "\n">>
  /\ tmp_files[StagedTmp(2)].writes = 1

\* Position of the last occurrence of a path in the batch.
LastIndexOf(path) ==
  CHOOSE m \in 1..Len(Batch) :
    /\ Batch[m] = path
    /\ \A m2 \in (m + 1)..Len(Batch) : Batch[m2] # path

InvocationsOf(path) == { n \in 1..Len(invoked) : invoked[n].path = path }

\* C16: once the batch is validated, the staging dict holds one entry per
\* distinct path, at the position of the path's first occurrence, and in
\* in-place mode with the temporary file created for its last occurrence;
\* the formatter is invoked at most once per path; a temporary file that is
\* in no entry is never written; and a successful in-place run has invoked
\* the formatter once per distinct path and run one commit iteration per
\* distinct path, leaving in the original the content of that last
\* temporary file.
C16_DuplicatePaths ==
  (~args.version /\ i = Len(Batch) + 1) =>
    LET order == Dedup(Batch)
    IN  /\ Len(orig_dune_to_tmp_dune) = Len(order)
        /\ \A n \in 1..Len(order) :
             /\ StagedOrig(n) = order[n]
             /\ args.in_place => StagedTmp(n) = LastIndexOf(order[n])
        /\ \A p \in BatchSet : Cardinality(InvocationsOf(p)) <= 1
        /\ \A t \in 1..Len(tmp_files) :
             (\A n \in 1..Len(orig_dune_to_tmp_dune) : StagedTmp(n) # t) =>
                tmp_files[t] = [prefix |-> Batch[t][2], content |-> <<>>, writes |-> 0]
        /\ (Done /\ args.in_place /\ NoInterrupt /\ exit_status = 0) =>
             /\ k - 1 = Len(order)
             /\ \A p \in BatchSet :
                  /\ Cardinality(InvocationsOf(p)) = 1
                  /\ files[p] = tmp_files[LastIndexOf(p)].content
                  /\ tmp_files[LastIndexOf(p)].writes = 1

C16_Witness ==
  /\ Done /\ args.in_place /\ NoInterrupt /\ exit_status = 0
  /\ Len(Batch) = 3
  /\ Batch[1] = Batch[3] /\ Batch[1] # Batch[2]
  /\ Len(invoked) = 2
  /\ StagedTmp(1) = 3
  /\ tmp_files[1].writes = 0
  /\ tmp_files[3].content = <<"x">>
  /\ files[Batch[1]] = <<"x">>


\* C17: a run without --version and without interrupt that ends with status
\* 0 has returned 0 from real_main with no exception and no failed
\* filesystem call, over a batch of valid files; it has made one invocation
\* per distinct path, all of which exited 0, and in in-place mode it has
\* overwritten every file of the batch with the output of its invocation.
C17_ZeroMeansSuccess ==
  (Done /\ ~args.version /\ NoInterrupt /\ exit_status = 0) =>
     /\ pending = [kind |-> "return", val |-> 0, exc |-> "none"]
     /\ NoFsError
     /\ AllBatchValid
     /\ Len(invoked) = Len(Dedup(Batch))
     /\ \A n \in 1..Len(invoked) : invoked[n].outcome = "ok" /\ invoked[n].rc = 0
     /\ \A p \in BatchSet : \E n \in 1..Len(invoked) : invoked[n].path = p
     /\ args.in_place => (AllFormatted /\ opened_w = BatchSet)

C17_Witness ==
  /\ Done /\ ~args.version /\ NoInterrupt /\ exit_status = 0
  /\ args.in_place
  /\ Len(Batch) = 1
  /\ invoked = << [path |-> Batch[1], outcome |-> "ok", rc |-> 0, out |-> <<"y", "\n">>] >>
  /\ files[Batch[1]] = <<"y", "\n">>

\* C18: in stream mode, once the invocation for the K-th distinct path of the
\* batch has exited non-zero, standard output holds the outputs of the K-1
\* invocations before it, in order, and nothing else (nothing of the K-th or
\* a later path); absent an interrupt the process status is that
\* invocation's code (256 - signum for a formatter killed by a signal).
C18_StreamPartialOutput ==
  (~args.in_place /\ ~args.version) =>
    \A K \in 1..Len(invoked) :
      invoked[K].outcome = "nonzero" =>
        /\ K = Len(invoked)
        /\ \A n \in 1..(K - 1) : invoked[n].outcome = "ok"
        /\ \A n \in 1..K : invoked[n].path = Dedup(Batch)[n]
        /\ stdout = ConcatOuts(SubSeq(invoked, 1, K - 1))
        /\ (Done /\ NoInterrupt) =>
             exit_status = IF invoked[K].rc > 0 THEN invoked[K].rc
                           ELSE 256 + invoked[K].rc

C18_Witness ==
  /\ Done /\ ~args.in_place /\ ~args.version /\ NoInterrupt
  /\ Len(Dedup(Batch)) = 3
  /\ Len(invoked) = 2
  /\ invoked[1].out = <<"x">>
  /\ invoked[2].outcome = "nonzero" /\ invoked[2].rc = 2
  /\ stdout = <<"x">>
  /\ exit_status = 2

====
